---- MODULE Spec2Model ----
(***************************************************************************)
(* Model of swri_profiler_tools/src/partition_widget.cpp: the partition    *)
(* ("icicle") layout of a profile tree, the locator of the active node's   *)
(* rectangle, and the view animation driven by setActiveNode/updateData.   *)
(*                                                                         *)
(* Doubles are modelled as exact reduced fractions n/d (d > 0) extended    *)
(* with the IEEE values NaN (0/0) and +-Inf (+-1/0), so that the division  *)
(* by time_scale = 0 and the clamping by std::max/std::min behave as the   *)
(* compiled code does.  Rounding of finite values is not modelled.         *)
(***************************************************************************)
EXTENDS Integers, Naturals, Sequences, FiniteSets, TLC

\* ------------------------------------------------------------------ bounds
\* bounds of SpecLayout (layoutProfile and dataRect over all small profiles)
MaxNodes == 4      \* nodes a profile can hold (keys 0 .. MaxNodes-1)
MaxTotal == 4      \* largest cumulative inclusive duration of a root
\* bounds of Spec (the widget with its animator)
WidgetNodes == 2   \* nodes a profile can hold
WidgetTotal == 2   \* largest cumulative inclusive duration of a root
Steps == 2         \* animation ticks from progress 0 to progress 1

\* ------------------------------------------------------- double arithmetic
RECURSIVE GCD(_, _)
GCD(a, b) == IF b = 0 THEN a ELSE GCD(b, a % b)

Abs(n) == IF n < 0 THEN 0 - n ELSE n

NaN == [n |-> 0, d |-> 0]
PosInf == [n |-> 1, d |-> 0]
NegInf == [n |-> 0 - 1, d |-> 0]
IsNaN(x) == x.d = 0 /\ x.n = 0
IsInf(x) == x.d = 0 /\ x.n # 0

\* the double n/d, d > 0, in lowest terms
Frac(n, d) == LET g == GCD(Abs(n), d) IN [n |-> n \div g, d |-> d \div g]
Num(k) == [n |-> k, d |-> 1]

\* a / b for non-negative integers converted to double (0/0 = NaN, a/0 = Inf)
FDiv(a, b) == IF b # 0 THEN Frac(a, b) ELSE IF a = 0 THEN NaN ELSE PosInf

FNeg(x) == [n |-> 0 - x.n, d |-> x.d]

FAdd(x, y) ==
    IF IsNaN(x) \/ IsNaN(y) THEN NaN
    ELSE IF IsInf(x) THEN (IF IsInf(y) /\ y.n # x.n THEN NaN ELSE x)
    ELSE IF IsInf(y) THEN y
    ELSE Frac(x.n * y.d + y.n * x.d, x.d * y.d)

FSub(x, y) == FAdd(x, FNeg(y))

FMul(x, y) ==
    IF IsNaN(x) \/ IsNaN(y) THEN NaN
    ELSE IF IsInf(x) \/ IsInf(y)
         THEN (IF x.n = 0 \/ y.n = 0 THEN NaN
               ELSE IF (x.n > 0) = (y.n > 0) THEN PosInf ELSE NegInf)
    ELSE Frac(x.n * y.n, x.d * y.d)

\* x < y on doubles: false as soon as one side is NaN
FLt(x, y) ==
    IF IsNaN(x) \/ IsNaN(y) THEN FALSE
    ELSE IF x.d = 0 /\ y.d = 0 THEN x.n < y.n
    ELSE IF x.d = 0 THEN x.n < 0
    ELSE IF y.d = 0 THEN y.n > 0
    ELSE x.n * y.d < y.n * x.d

FLe(x, y) == (~IsNaN(x)) /\ (~IsNaN(y)) /\ ~FLt(y, x)

\* std::max(a, b) is (a < b) ? b : a and std::min(a, b) is (b < a) ? b : a
FMax(a, b) == IF FLt(a, b) THEN b ELSE a
FMin(a, b) == IF FLt(b, a) THEN b ELSE a

\* ----------------------------------------------------------------- profile
\* A Profile as this file reads it: rootNode().isValid(), whether data() is
\* non-empty, childKeys() per node and data().back() per node.  Node key k
\* is stored at index k+1; the root has key 0.
InvalidProfile == [valid |-> FALSE, has_data |-> FALSE, childKeys |-> <<>>, excl |-> <<>>]
NewProfile == [valid |-> TRUE, has_data |-> FALSE, childKeys |-> << <<>> >>, excl |-> <<0>>]

nodeCount(profile) == Len(profile.childKeys)
childKeys(profile, key) == profile.childKeys[key + 1]
hasChildren(profile, key) == childKeys(profile, key) # <<>>
cumulative_exclusive_duration_ns(profile, key) == profile.excl[key + 1]

\* inclusive duration = own exclusive duration + the children's inclusive ones
RECURSIVE SumInclusive(_, _, _)
RECURSIVE cumulative_inclusive_duration_ns(_, _)
cumulative_inclusive_duration_ns(profile, key) ==
    cumulative_exclusive_duration_ns(profile, key)
        + SumInclusive(profile, childKeys(profile, key), 1)
SumInclusive(profile, keys, j) ==
    IF j > Len(keys) THEN 0
    ELSE cumulative_inclusive_duration_ns(profile, keys[j])
             + SumInclusive(profile, keys, j + 1)

\* -------------------------------------------------------- layoutProfile
LayoutItem(node_key, exclusive, span_start, span_end) ==
    [node_key |-> node_key, exclusive |-> exclusive,
     span_start |-> span_start, span_end |-> span_end]

\* for (int child_key : parent_node.childKeys()) { ... }
RECURSIVE ChildLoop(_, _, _, _, _)
ChildLoop(profile, time_scale, keys, j, acc) ==
    IF j > Len(keys) THEN acc
    ELSE LET child_key == keys[j]
             span_end == FAdd(acc.span_start,
                              FDiv(cumulative_inclusive_duration_ns(profile, child_key),
                                   time_scale))
             item == LayoutItem(child_key, FALSE, acc.span_start, span_end)
         IN ChildLoop(profile, time_scale, keys, j + 1,
                      [children |-> Append(acc.children, item),
                       span_start |-> span_end,
                       keep_going |-> acc.keep_going \/ hasChildren(profile, child_key)])

\* for (auto const &parent_item : parents) { ... }
RECURSIVE ParentLoop(_, _, _, _, _)
ParentLoop(profile, time_scale, parents, i, acc) ==
    IF i > Len(parents) THEN acc
    ELSE LET parent_item == parents[i]
             span_end == FAdd(acc.span_start,
                              FDiv(cumulative_exclusive_duration_ns(profile, parent_item.node_key),
                                   time_scale))
             item == LayoutItem(parent_item.node_key, TRUE, acc.span_start, span_end)
             carried == [children |-> Append(acc.children, item),
                         span_start |-> span_end,
                         keep_going |-> acc.keep_going]
         IN ParentLoop(profile, time_scale, parents, i + 1,
                       IF parent_item.exclusive THEN carried
                       ELSE ChildLoop(profile, time_scale,
                                      childKeys(profile, parent_item.node_key), 1, carried))

\* iterations the while loop is followed for before it is reported as not
\* terminating: a tree of n nodes has fewer than n levels, and no profile
\* of either specification has more than MaxNodes nodes
LoopFuel == MaxNodes + 1

\* mutant of ColumnLoop: keep_going is not reset at the top of the loop body
RECURSIVE ColumnLoop_NoReset(_, _, _, _, _)
ColumnLoop_NoReset(profile, time_scale, layout, keep_going, fuel) ==
    IF ~keep_going THEN [layout |-> layout, terminated |-> TRUE]
    ELSE IF fuel = 0 THEN [layout |-> layout, terminated |-> FALSE]
    ELSE LET parents == layout[Len(layout)]
             r == ParentLoop(profile, time_scale, parents, 1,
                             [children |-> <<>>, span_start |-> Num(0),
                              keep_going |-> keep_going])
         IN ColumnLoop_NoReset(profile, time_scale, Append(layout, r.children),
                               r.keep_going, fuel - 1)

\* while (keep_going) { keep_going = false; layout.emplace_back(); ... }
RECURSIVE ColumnLoop(_, _, _, _, _)
ColumnLoop(profile, time_scale, layout, keep_going, fuel) ==
    IF ~keep_going THEN [layout |-> layout, terminated |-> TRUE]
    ELSE IF fuel = 0 THEN [layout |-> layout, terminated |-> FALSE]
    ELSE LET parents == layout[Len(layout)]
             r == ParentLoop(profile, time_scale, parents, 1,
                             [children |-> <<>>, span_start |-> Num(0), keep_going |-> FALSE])
         IN ColumnLoop(profile, time_scale, Append(layout, r.children), r.keep_going, fuel - 1)

\* the whole of layoutProfile, with the flag telling that its loop ended
layoutRun(profile) ==
    IF ~profile.valid THEN [layout |-> <<>>, terminated |-> TRUE]
    ELSE IF ~profile.has_data THEN [layout |-> <<>>, terminated |-> TRUE]
    ELSE LET time_scale == cumulative_inclusive_duration_ns(profile, 0)
             root_item == LayoutItem(0, FALSE, Num(0), Num(1))
         IN ColumnLoop(profile, time_scale, << <<root_item>> >>,
                       hasChildren(profile, 0), LoopFuel)

layoutProfile(profile) == layoutRun(profile).layout

\* ------------------------------------------------------------- dataRect
QRectF(x1, y1, x2, y2) == [x1 |-> x1, y1 |-> y1, x2 |-> x2, y2 |-> y2]
RectWidth(r) == FSub(r.x2, r.x1)
RectHeight(r) == FSub(r.y2, r.y1)

margin == Frac(1, 20)

\* the two nested for loops: the position <<col, row>> (0-based) of the first
\* item whose node key is node_key, or <<-1, -1>> when the loops run out
RECURSIVE Scan(_, _, _, _)
Scan(layout, node_key, col, row) ==
    IF col >= Len(layout) THEN <<0 - 1, 0 - 1>>
    ELSE IF row >= Len(layout[col + 1]) THEN Scan(layout, node_key, col + 1, 0)
    ELSE IF node_key = layout[col + 1][row + 1].node_key THEN <<col, row>>
    ELSE Scan(layout, node_key, col, row + 1)

\* mutant of FullRect: the corner's coordinates swapped
FullRect_Swapped(layout) == QRectF(Num(0), Num(0), Num(1), Num(Len(layout)))

FullRect(layout) == QRectF(Num(0), Num(0), Num(Len(layout)), Num(1))

\* mutant of ItemRect: the margin added to span_start instead of subtracted
ItemRect_MarginSign(layout, col, row) ==
    LET item == layout[col + 1][row + 1]
        rect_col == FMax(Num(0), FSub(Num(col), Frac(1, 5)))
        span_size == FSub(item.span_end, item.span_start)
        span_start == FMax(FAdd(item.span_start, FMul(margin, span_size)), Num(0))
        span_end == FMin(FAdd(item.span_end, FMul(margin, span_size)), Num(1))
    IN QRectF(rect_col, span_start, Num(Len(layout)), span_end)

\* the rectangle dataRect returns for the item found at <<col, row>>
ItemRect(layout, col, row) ==
    LET item == layout[col + 1][row + 1]
        rect_col == FMax(Num(0), FSub(Num(col), Frac(1, 5)))
        span_size == FSub(item.span_end, item.span_start)
        span_start == FMax(FSub(item.span_start, FMul(margin, span_size)), Num(0))
        span_end == FMin(FAdd(item.span_end, FMul(margin, span_size)), Num(1))
    IN QRectF(rect_col, span_start, Num(Len(layout)), span_end)

\* dataRect with the qWarning it raises when the key is not found
dataRect(layout, active_key) ==
    LET found == Scan(layout, active_key.node, 0, 0)
    IN IF found[1] >= 0
       THEN [rect |-> ItemRect(layout, found[1], found[2]), warning |-> FALSE]
       ELSE [rect |-> FullRect(layout), warning |-> TRUE]

\* ---------------------------------------------------------- DatabaseKey
DatabaseKey(profile_key, node_key) == [profile |-> profile_key, node |-> node_key]
InvalidKey == DatabaseKey(0 - 1, 0 - 1)
isValid(key) == key.profile >= 0 /\ key.node >= 0

\* ----------------------------------------------------- VariantAnimation
NullRect == QRectF(Num(0), Num(0), Num(0), Num(0))
NewAnimation ==
    [startValue |-> NullRect, endValue |-> NullRect, state |-> "Idle",
     progress |-> 0, duration |-> 250]

stop(a) == [a EXCEPT !.state = "Idle"]
setStartValue(a, v) == [a EXCEPT !.startValue = v]
setEndValue(a, v) == [a EXCEPT !.endValue = v]
setDuration(a, ms) == [a EXCEPT !.duration = ms]
start(a) == IF a.state = "Animating" THEN a
            ELSE [a EXCEPT !.state = "Animating", !.progress = 0]

Lerp(f, t, k) == FAdd(f, FMul(FSub(t, f), Frac(k, Steps)))
\* the interpolated rectangle at the present progress
currentValue(a) ==
    QRectF(Lerp(a.startValue.x1, a.endValue.x1, a.progress),
           Lerp(a.startValue.y1, a.endValue.y1, a.progress),
           Lerp(a.startValue.x2, a.endValue.x2, a.progress),
           Lerp(a.startValue.y2, a.endValue.y2, a.progress))

\* ------------------------------------------------------------------ state
ProfileKeys == {0}
DatabaseIds == {1}
NULL == 0
TransitionMs == 500

VARIABLES
    db_,              \* the attached ProfileDatabase, NULL before setDatabase
    profiles,         \* the database's profiles, by profile key
    active_key_,
    current_layout_,
    view_animator_,
    call              \* history: the last handler that ran and what it saw

vars == <<db_, profiles, active_key_, current_layout_, view_animator_, call>>

\* db_->profile(key) on the database contents store: the profile stored under
\* key, else an invalid profile
Profile(store, profile_key) ==
    IF profile_key \in ProfileKeys THEN store[profile_key] ELSE InvalidProfile

NoCall == [op |-> "none", terminated |-> TRUE, warning |-> FALSE]

Init ==
    /\ db_ = NULL
    /\ profiles = [p \in ProfileKeys |-> InvalidProfile]
    /\ active_key_ = InvalidKey
    /\ current_layout_ = <<>>
    /\ view_animator_ = NewAnimation
    /\ call = NoCall

\* ---------------------------------------------------------------- handlers
\* a second call only warns and keeps the database already attached
setDatabase(db) ==
    /\ db_' = IF db_ # NULL THEN db_ ELSE db
    /\ UNCHANGED <<profiles, active_key_, current_layout_, view_animator_, call>>

\* mutant of updateData: the rebuilt layout is not installed
updateData_StaleLayout(store) ==
    /\ IF ~isValid(active_key_)
       THEN /\ call' = [NoCall EXCEPT !.op = "updateData"]
            /\ UNCHANGED <<current_layout_, view_animator_>>
       ELSE LET run == layoutRun(Profile(store, active_key_.profile))
                data_rect == dataRect(run.layout, active_key_)
            IN /\ view_animator_' = setEndValue(view_animator_, data_rect.rect)
               /\ UNCHANGED current_layout_
               /\ call' = [op |-> "updateData", terminated |-> run.terminated,
                           warning |-> data_rect.warning]
    /\ UNCHANGED <<db_, active_key_>>

\* the slot updateData, run on the database contents store
updateData(store) ==
    /\ IF ~isValid(active_key_)
       THEN /\ call' = [NoCall EXCEPT !.op = "updateData"]
            /\ UNCHANGED <<current_layout_, view_animator_>>
       ELSE LET run == layoutRun(Profile(store, active_key_.profile))
                data_rect == dataRect(run.layout, active_key_)
            IN /\ view_animator_' = setEndValue(view_animator_, data_rect.rect)
               /\ current_layout_' = run.layout
               /\ call' = [op |-> "updateData", terminated |-> run.terminated,
                           warning |-> data_rect.warning]
    /\ UNCHANGED <<db_, active_key_>>

\* mutant of transitionTo: the transition restarts from the old start value
transitionTo_FromStart(a, data_rect) ==
    start(setDuration(setEndValue(setStartValue(stop(a), a.startValue), data_rect),
                      TransitionMs))
\* mutant of setInstant: only the end value is set
setInstant_EndOnly(a, data_rect) == setEndValue(a, data_rect)

\* the calls setActiveNode makes on view_animator_ in its two branches
transitionTo(a, data_rect) ==
    start(setDuration(setEndValue(setStartValue(stop(a), a.endValue), data_rect),
                      TransitionMs))
setInstant(a, data_rect) == setEndValue(setStartValue(a, data_rect), data_rect)

\* the widget is used only once its database is attached
setActiveNode(profile_key, node_key) ==
    /\ db_ # NULL
    /\ LET new_key == DatabaseKey(profile_key, node_key)
       IN IF new_key = active_key_
          THEN UNCHANGED vars
          ELSE LET first == ~isValid(active_key_)
                   run == layoutRun(Profile(profiles, new_key.profile))
                   data_rect == dataRect(run.layout, new_key)
               IN /\ active_key_' = new_key
                  /\ current_layout_' = run.layout
                  /\ view_animator_' = IF ~first
                                       THEN transitionTo(view_animator_, data_rect.rect)
                                       ELSE setInstant(view_animator_, data_rect.rect)
                  /\ call' = [op |-> IF first THEN "setActiveNode_first" ELSE "setActiveNode",
                              terminated |-> run.terminated, warning |-> data_rect.warning]
                  /\ UNCHANGED <<db_, profiles>>

\* one tick of the animation timer; the last tick ends the animation
tick ==
    /\ view_animator_.state = "Animating"
    /\ view_animator_' =
          [view_animator_ EXCEPT
              !.progress = @ + 1,
              !.state = IF view_animator_.progress + 1 >= Steps THEN "Idle" ELSE "Animating"]
    /\ UNCHANGED <<db_, profiles, active_key_, current_layout_, call>>

\* --------------------------------------------------- database and signals
\* The database changes and emits profileAdded / nodesAdded / dataAdded; the
\* connections made by setDatabase are direct, so the slot updateData runs
\* inside the emit, on the changed contents.
emit(store) ==
    /\ profiles' = store
    /\ IF db_ # NULL
       THEN updateData(store)
       ELSE UNCHANGED <<db_, active_key_, current_layout_, view_animator_, call>>

profileAdded(p) ==
    /\ ~profiles[p].valid
    /\ emit([profiles EXCEPT ![p] = NewProfile])

\* a node is added as the last child of parent, while the profile has fewer
\* than max_nodes nodes
nodesAdded(p, parent, max_nodes) ==
    /\ profiles[p].valid
    /\ nodeCount(profiles[p]) < max_nodes
    /\ parent \in 0 .. nodeCount(profiles[p]) - 1
    /\ emit([profiles EXCEPT ![p] =
          [@ EXCEPT !.childKeys = Append([@ EXCEPT ![parent + 1] =
                                             Append(@, nodeCount(profiles[p]))], <<>>),
                    !.excl = Append(@, 0)]])

\* a sample arrives in which node key has spent delta more time, while the
\* root's inclusive duration stays within max_total
dataAdded(p, key, delta, max_total) ==
    /\ profiles[p].valid
    /\ key \in 0 .. nodeCount(profiles[p]) - 1
    /\ cumulative_inclusive_duration_ns(profiles[p], 0) + delta <= max_total
    /\ emit([profiles EXCEPT ![p] =
          [@ EXCEPT !.has_data = TRUE, !.excl = [@ EXCEPT ![key + 1] = @ + delta]]])

\* the keys given to setActiveNode: the invalid key, the keys of the nodes a
\* profile can hold and one node key no profile holds
Keys(max_nodes) ==
    {InvalidKey} \cup {DatabaseKey(p, k) : p \in ProfileKeys, k \in 0 .. max_nodes}
KeyInputs == Keys(WidgetNodes)

\* the widget in use
Next ==
    \/ \E db \in DatabaseIds : setDatabase(db)
    \/ \E key \in KeyInputs : setActiveNode(key.profile, key.node)
    \/ tick
    \/ \E p \in ProfileKeys : profileAdded(p)
    \/ \E p \in ProfileKeys, parent \in 0 .. WidgetNodes - 1 :
          nodesAdded(p, parent, WidgetNodes)
    \/ \E p \in ProfileKeys, key \in 0 .. WidgetNodes - 1, delta \in 0 .. 1 :
          dataAdded(p, key, delta, WidgetTotal)

Spec == Init /\ [][Next]_vars

\* layoutProfile and dataRect applied once to every profile within MaxNodes
\* and MaxTotal: the profile is filled before the database is attached, and
\* the first setActiveNode then lays it out
NextLayout ==
    \/ db_ = NULL /\ \E p \in ProfileKeys : profileAdded(p)
    \/ db_ = NULL /\ \E p \in ProfileKeys, parent \in 0 .. MaxNodes - 1 :
          nodesAdded(p, parent, MaxNodes)
    \/ db_ = NULL /\ \E p \in ProfileKeys, key \in 0 .. MaxNodes - 1, delta \in 0 .. 1 :
          dataAdded(p, key, delta, MaxTotal)
    \/ db_ = NULL /\ \E db \in DatabaseIds : setDatabase(db)
    \/ active_key_ = InvalidKey /\ \E key \in Keys(MaxNodes) \ {InvalidKey} :
          setActiveNode(key.profile, key.node)

SpecLayout == Init /\ [][NextLayout]_vars

\* ------------------------------------------------------ claim vocabulary
Zero == Num(0)
One == Num(1)

\* positions <<col, row>> (0-based) of the items of layout
Positions(layout) ==
    UNION {{<<c, r>> : r \in 0 .. Len(layout[c + 1]) - 1} : c \in 0 .. Len(layout) - 1}
ItemAt(layout, cr) == layout[cr[1] + 1][cr[2] + 1]
Matches(layout, node_key) ==
    {cr \in Positions(layout) : ItemAt(layout, cr).node_key = node_key}
\* first match in column-major, then row-major order
FirstMatch(layout, node_key) ==
    CHOOSE cr \in Matches(layout, node_key) :
        \A o \in Matches(layout, node_key) :
            cr[1] < o[1] \/ (cr[1] = o[1] /\ cr[2] <= o[2])

\* the profile the handlers read for the active key
ActiveProfile == Profile(profiles, active_key_.profile)
LastCallBuilt == call.op \in {"setActiveNode", "setActiveNode_first", "updateData"}
LastCallSetActive == call.op \in {"setActiveNode", "setActiveNode_first"}

RECURSIVE Height(_, _)
RECURSIVE MaxChildHeight(_, _, _)
Height(profile, key) ==
    IF childKeys(profile, key) = <<>> THEN 0
    ELSE 1 + MaxChildHeight(profile, childKeys(profile, key), 1)
MaxChildHeight(profile, keys, j) ==
    IF j > Len(keys) THEN 0
    ELSE LET h == Height(profile, keys[j])
             rest == MaxChildHeight(profile, keys, j + 1)
         IN IF h > rest THEN h ELSE rest

\* C1: every item of every column of a layout built by layoutProfile has
\* 0 <= span_start <= span_end <= 1.
C1_SpansInUnitInterval ==
    \A cr \in Positions(current_layout_) :
        LET item == ItemAt(current_layout_, cr)
        IN /\ FLe(Zero, item.span_start)
           /\ FLe(item.span_start, item.span_end)
           /\ FLe(item.span_end, One)

\* the items of the next column generated from the parents from index i on,
\* the first of them sitting at index offset + 1 of that column
RECURSIVE SumLengths(_, _, _)
SumLengths(items, from, to) ==
    IF from > to THEN Zero
    ELSE FAdd(FSub(items[from].span_end, items[from].span_start),
              SumLengths(items, from + 1, to))
RECURSIVE GeneratedConserve(_, _, _, _, _)
GeneratedConserve(profile, parents, children, i, offset) ==
    IF i > Len(parents) THEN offset = Len(children)
    ELSE LET P == parents[i]
             count == 1 + (IF P.exclusive THEN 0 ELSE Len(childKeys(profile, P.node_key)))
         IN /\ offset + count <= Len(children)
            /\ children[offset + 1].node_key = P.node_key
            /\ children[offset + 1].exclusive
            /\ \A k \in 2 .. count :
                  children[offset + k].span_start = children[offset + k - 1].span_end
            /\ SumLengths(children, offset + 1, offset + count)
                  = FSub(P.span_end, P.span_start)
            /\ GeneratedConserve(profile, parents, children, i + 1, offset + count)

\* C2: in a layout built by layoutProfile, the items of column i+1 generated
\* from an item P of column i (P's exclusive segment, then one item per child
\* of a non-exclusive P) are contiguous and their lengths sum to P's length.
C2_ChildrenPartitionParent ==
    (LastCallBuilt /\ isValid(active_key_)) =>
        \A i \in 1 .. Len(current_layout_) - 1 :
            GeneratedConserve(ActiveProfile, current_layout_[i], current_layout_[i + 1], 1, 0)

\* C3: a transition requested by setActiveNode while the animator is
\* Animating starts from the animator's current interpolated rectangle.
C3_RestartFromCurrentRect ==
    [][\A key \in KeyInputs :
          (/\ setActiveNode(key.profile, key.node)
           /\ isValid(active_key_)
           /\ key # active_key_
           /\ view_animator_.state = "Animating")
          => view_animator_'.startValue = currentValue(view_animator_)]_vars

\* C4: for a non-empty layout and any active node key the rectangle returned
\* by dataRect has strictly positive width and strictly positive height.
C4_DataRectHasArea ==
    current_layout_ # <<>> =>
        \A key \in Keys(MaxNodes) :
            LET rect == dataRect(current_layout_, key).rect
            IN FLt(Zero, RectWidth(rect)) /\ FLt(Zero, RectHeight(rect))

\* max(0, col - 0.2), written out
LeftEdge(col) == IF col = 0 THEN Zero ELSE Frac(5 * col - 1, 5)

\* C5 as stated: for a key found in the layout, dataRect's vertical extent
\* strictly contains the span of the first matching item, and its left edge
\* is max(0, col - 0.2).
C5_StrictlyContainsSpan ==
    \A key \in Keys(MaxNodes) :
        Matches(current_layout_, key.node) # {} =>
            LET cr == FirstMatch(current_layout_, key.node)
                item == ItemAt(current_layout_, cr)
                rect == dataRect(current_layout_, key).rect
            IN /\ FLt(rect.y1, item.span_start)
               /\ FLt(item.span_end, rect.y2)
               /\ rect.x1 = LeftEdge(cr[1])

\* C5 amended: the vertical extent never cuts into the span of the first
\* matching item (top edge not greater than span_start, bottom edge not less
\* than span_end); the top edge is strictly less than span_start when the span
\* has positive length and span_start > 0, the bottom edge strictly greater
\* than span_end when the span has positive length and span_end < 1; the left
\* edge is max(0, col - 0.2) and the right edge the column count.
C5_ContainsSpanClamped ==
    \A key \in Keys(MaxNodes) :
        Matches(current_layout_, key.node) # {} =>
            LET cr == FirstMatch(current_layout_, key.node)
                item == ItemAt(current_layout_, cr)
                rect == dataRect(current_layout_, key).rect
                positive == FLt(item.span_start, item.span_end)
            IN /\ ~FLt(item.span_start, rect.y1)
               /\ ~FLt(rect.y2, item.span_end)
               /\ (positive /\ FLt(Zero, item.span_start)) => FLt(rect.y1, item.span_start)
               /\ (positive /\ FLt(item.span_end, One)) => FLt(item.span_end, rect.y2)
               /\ rect.x1 = LeftEdge(cr[1])
               /\ rect.x2 = Num(Len(current_layout_))

\* a key is found beyond column 0; its span starts at 0, where the margin is
\* clamped away, and ends before 1, where the margin is kept
C5_Witness ==
    \E key \in Keys(MaxNodes) :
        /\ Matches(current_layout_, key.node) # {}
        /\ LET cr == FirstMatch(current_layout_, key.node)
               item == ItemAt(current_layout_, cr)
               rect == dataRect(current_layout_, key).rect
           IN /\ cr[1] >= 1
              /\ item.span_start = Zero
              /\ rect.y1 = Zero
              /\ FLt(item.span_start, item.span_end)
              /\ FLt(item.span_end, rect.y2)
              /\ FLt(rect.y2, One)

KeyAbsent == \A cr \in Positions(current_layout_) :
                ItemAt(current_layout_, cr).node_key # active_key_.node

\* C6: after setActiveNode with a node key that is in no item of the layout
\* it built, the not-found warning was raised, the animator's end rectangle
\* is exactly [0, columnCount] x [0, 1], and the layout built is installed.
C6_AbsentKeyFullExtent ==
    (LastCallSetActive /\ KeyAbsent) =>
        /\ call.warning
        /\ view_animator_.endValue =
              [x1 |-> Zero, y1 |-> Zero, x2 |-> Num(Len(current_layout_)), y2 |-> One]
        /\ current_layout_ = layoutProfile(ActiveProfile)

C6_Witness ==
    /\ LastCallSetActive
    /\ KeyAbsent
    /\ isValid(active_key_)
    /\ Len(current_layout_) >= 2
    /\ call.warning

C8_SecondCallTransitions ==
    [][\A key \in KeyInputs :
          (/\ setActiveNode(key.profile, key.node)
           /\ LastCallSetActive
           /\ isValid(active_key_)
           /\ isValid(key)
           /\ key # active_key_)
          => /\ view_animator_'.state = "Animating"
             /\ view_animator_'.progress = 0
             /\ view_animator_'.duration = 500
             /\ view_animator_'.startValue = view_animator_.endValue
             /\ view_animator_'.startValue = dataRect(current_layout_, active_key_).rect
             /\ view_animator_'.endValue =
                   dataRect(layoutProfile(Profile(profiles, key.profile)), key).rect]_vars

C8_Witness ==
    /\ call.op = "setActiveNode"
    /\ isValid(active_key_)
    /\ ~KeyAbsent
    /\ view_animator_.state = "Animating"
    /\ view_animator_.progress = 0
    /\ view_animator_.duration = 500
    /\ view_animator_.startValue # view_animator_.endValue
    /\ view_animator_.endValue = dataRect(current_layout_, active_key_).rect

\* a data-change notification reaching the attached widget
Notified ==
    /\ db_ # NULL
    /\ \/ \E p \in ProfileKeys : profileAdded(p)
       \/ \E p \in ProfileKeys, parent \in 0 .. WidgetNodes - 1 :
              nodesAdded(p, parent, WidgetNodes)
       \/ \E p \in ProfileKeys, key \in 0 .. WidgetNodes - 1, delta \in 0 .. 1 :
              dataAdded(p, key, delta, WidgetTotal)

\* C9: after every step, when the active key is valid the animator's end
\* rectangle is dataRect(current_layout_) and current_layout_ is the layout of
\* the active profile as of the latest setActiveNode or notification; a
\* notification with no valid active key changes neither layout nor animator,
\* and no notification changes the active key or the start rectangle.
C9_RebuildOnChange ==
    [][/\ isValid(active_key_') =>
             /\ view_animator_'.endValue = dataRect(current_layout_', active_key_').rect
             /\ current_layout_' = layoutProfile(Profile(profiles', active_key_'.profile))
       /\ Notified =>
             /\ active_key_' = active_key_
             /\ view_animator_'.startValue = view_animator_.startValue
             /\ (~isValid(active_key_) =>
                    current_layout_' = current_layout_ /\ view_animator_' = view_animator_)]_vars

\* a notification has replaced the layout and moved the animation target
C9_Witness ==
    /\ call.op = "updateData"
    /\ isValid(active_key_)
    /\ Len(current_layout_) >= 2
    /\ view_animator_.endValue # view_animator_.startValue
    /\ view_animator_.endValue = dataRect(current_layout_, active_key_).rect

\* C10: for a profile whose root is valid and has samples the column loop of
\* layoutProfile terminates and the layout has height + 1 columns.
C10_ColumnsAreHeightPlusOne ==
    (LastCallBuilt /\ isValid(active_key_) /\ ActiveProfile.valid /\ ActiveProfile.has_data) =>
        /\ call.terminated
        /\ Len(current_layout_) = Height(ActiveProfile, 0) + 1

C10_Witness ==
    /\ LastCallBuilt
    /\ isValid(active_key_)
    /\ call.terminated
    /\ ActiveProfile.valid
    /\ ActiveProfile.has_data
    /\ Height(ActiveProfile, 0) = 2
    /\ Len(current_layout_) = 3
====
